---------------------------- MODULE Spec2Model ----------------------------
(***************************************************************************)
(* A model of static/app.js, the DOM event-binding script of the "estado   *)
(* de cuenta" page: drag-and-drop row reordering, click / keyboard marking *)
(* of numeric cells, double-click "pagado", the sum bar, the FECHA sort    *)
(* toggle and the navigation group toggles.                                *)
(*                                                                         *)
(* Strings the script inspects (attribute values, key names, JSON values)  *)
(* are tuples of one-character strings, so that trim, the /^\d+$/ test,    *)
(* parseInt, toLowerCase and Number are computed as the script computes    *)
(* them.  The server is an external collaborator: every response it can    *)
(* give is a nondeterministic choice.                                      *)
(***************************************************************************)
EXTENDS Integers, Sequences, FiniteSets, TLC

\* ------------------------------------------------------------------------
\* Bounds of the model
\* ------------------------------------------------------------------------

\* Requests in flight at one time.
MaxPending == 2

\* Page loads after the first one (reloads and navigations).
MaxLoads == 2

\* ------------------------------------------------------------------------
\* Strings
\* ------------------------------------------------------------------------

\* getAttribute() of an attribute that is not there: null.
NoAttr == <<"null">>

Digits == {"0", "1", "2", "3", "4", "5", "6", "7", "8", "9"}

WhiteSpace == {" ", "\t", "\n"}

DigitVal(c) ==
  CASE c = "0" -> 0 [] c = "1" -> 1 [] c = "2" -> 2 [] c = "3" -> 3
    [] c = "4" -> 4 [] c = "5" -> 5 [] c = "6" -> 6 [] c = "7" -> 7
    [] c = "8" -> 8 [] c = "9" -> 9

RECURSIVE TrimLeft(_)
TrimLeft(s) ==
  IF s # <<>> /\ Head(s) \in WhiteSpace THEN TrimLeft(Tail(s)) ELSE s

RECURSIVE TrimRight(_)
TrimRight(s) ==
  IF s # <<>> /\ s[Len(s)] \in WhiteSpace
    THEN TrimRight(SubSeq(s, 1, Len(s) - 1))
    ELSE s

\* String.prototype.trim
Trim(s) == TrimRight(TrimLeft(s))

AllDigits(s) == \A i \in 1..Len(s) : s[i] \in Digits

\* String.prototype.toLowerCase, on the letters the page's attributes use.
LowerChar(c) ==
  CASE c = "A" -> "a" [] c = "S" -> "s" [] c = "C" -> "c"
    [] c = "D" -> "d" [] c = "E" -> "e" [] OTHER -> c

toLowerCase(s) == [i \in 1..Len(s) |-> LowerChar(s[i])]

\* The longest prefix of s made of digits.
RECURSIVE DigitPrefix(_)
DigitPrefix(s) ==
  IF s # <<>> /\ Head(s) \in Digits
    THEN <<Head(s)>> \o DigitPrefix(Tail(s))
    ELSE <<>>

RECURSIVE DigitsValue(_)
DigitsValue(s) ==
  IF s = <<>> THEN 0 ELSE 10 * DigitsValue(SubSeq(s, 1, Len(s) - 1)) + DigitVal(s[Len(s)])

\* A JavaScript number that is an integer, or NaN.
NaN == [nan |-> TRUE, n |-> 0]

Num(n) == [nan |-> FALSE, n |-> n]

\* parseInt(s) without a radix: leading white space is skipped, a sign is
\* read, then the longest run of decimal digits; NaN when there is none.
parseInt(s) ==
  LET t == TrimLeft(s)
      neg == t # <<>> /\ Head(t) = "-"
      u == IF t # <<>> /\ Head(t) \in {"-", "+"} THEN Tail(t) ELSE t
      d == DigitPrefix(u)
  IN  IF d = <<>> THEN NaN
      ELSE Num(IF neg THEN 0 - DigitsValue(d) ELSE DigitsValue(d))

\* ------------------------------------------------------------------------
\* The page the server renders (the document before the script runs)
\* ------------------------------------------------------------------------

\* table.reorder-table elements; each has one tbody.
Tables == {"t1", "t2"}

\* The rows of each tbody, in the order the server renders them.
TableRows(t) ==
  CASE t = "t1" -> <<"r1", "r2", "r3">>
    [] t = "t2" -> <<"r4", "r5", "r6">>

Rows == UNION {{TableRows(t)[i] : i \in 1..Len(TableRows(t))} : t \in Tables}

NoRow == "none"

TableOf(r) == CHOOSE t \in Tables : \E i \in 1..Len(TableRows(t)) : TableRows(t)[i] = r

\* tr.getAttribute('data-id')
RowDataId(r) ==
  CASE r = "r1" -> <<"1">>
    [] r = "r2" -> <<" ", "2">>
    [] r = "r3" -> <<"x">>
    [] r = "r4" -> NoAttr
    [] r = "r5" -> <<>>
    [] r = "r6" -> <<"7">>

\* table.getAttribute('data-cliente')
DataCliente(t) == IF t = "t1" THEN <<"A">> ELSE NoAttr

\* table.closest('.card') is an element: each such table has a card of its own.
InCard(t) == t = "t1"

\* td.num-cell elements.
Cells == {"cA", "cB"}

NoCell == "none"

\* td.closest('tr')
CellRow(c) == CASE c = "cA" -> "r1" [] c = "cB" -> "r2"

\* td.closest('table')
CellTable(c) == TableOf(CellRow(c))

\* td.getAttribute('data-id')
CellDataId(c) == RowDataId(CellRow(c))

\* td.getAttribute('data-col')
CellCol(c) == CASE c = "cA" -> "DEBE" [] c = "cB" -> "HABER"

\* td.getAttribute('data-val')
CellVal(c) ==
  CASE c = "cA" -> <<"1", "0">>
    [] c = "cB" -> <<"1", ".", "2", "3", "4", ",", "5", "0">>

\* The mark classes the server renders on the numeric cells.
RawMarked == {"cA", "cB"}

RawMarkN(c) == IF c = "cA" THEN {2} ELSE {}

\* The elements inside a row that can carry class 'overdue': its
\* td.venc-cell, its td.venc-days and one other cell.
RowParts == {"venc-cell", "venc-days", "saldo"}

VencParts == {"venc-cell", "venc-days"}

RawOverdue ==
  {<<"r1", "venc-cell">>, <<"r1", "venc-days">>, <<"r3", "saldo">>,
   <<"r3", "venc-days">>, <<"r5", "venc-cell">>, <<"r6", "venc-days">>}

\* button.nav-group-toggle elements.  b1 and b2 sit in .nav-group g1 and g2
\* and point at submenus m1 and m2; b3 sits in g3 and its data-target names
\* no element; b4 points at m4 and has no .nav-group ancestor.
NavButtons == {"b1", "b2", "b3", "b4"}

NavGroups == {"g1", "g2", "g3"}

NavSubs == {"m1", "m2", "m4"}

NoElement == "none"

\* btn.closest('.nav-group')
ButtonGroup(b) ==
  CASE b = "b1" -> "g1" [] b = "b2" -> "g2" [] b = "b3" -> "g3" [] b = "b4" -> NoElement

\* document.getElementById(btn.getAttribute('data-target'))
ButtonSub(b) ==
  CASE b = "b1" -> "m1" [] b = "b2" -> "m2" [] b = "b3" -> NoElement [] b = "b4" -> "m4"

\* The groups the server renders with class 'open'.
RawOpen == {"g1"}

\* ------------------------------------------------------------------------
\* State
\* ------------------------------------------------------------------------

VARIABLES
  phase,            \* "loading": the document is parsed, the script has not run;
                    \* "ready": the DOMContentLoaded handler has run
  loads,            \* page loads after the first one
  query,            \* window.location.href: the query parameters, in order
  dataOrden,        \* [Tables -> attribute]: table.getAttribute('data-orden')
  rowOrder,         \* [Tables -> Seq(Rows)]: the tr children of each tbody
  dragRow,          \* [Tables -> Rows \cup {NoRow}]: the closure variable dragRow
  dragging,         \* the rows that carry class 'dragging'
  marked,           \* the numeric cells that carry class 'marked'
  markN,            \* [Cells -> SUBSET Nat]: the N of each cell's mark-N classes
  overdue,          \* the row parts that carry class 'overdue'
  sumBar,           \* [Tables -> bar]: the .sum-bar of each table's card
  lastClickedCell,  \* the closure variable lastClickedCell
  navOpen,          \* the .nav-group elements that carry class 'open'
  subDisplay,       \* [NavSubs -> style.display]
  net,              \* the fetch() requests in flight, in the order sent
  stored            \* [Cells -> SUBSET Nat]: the mark the server holds for each
                    \* cell since it processed a request of this page for it

vars ==
  <<phase, loads, query, dataOrden, rowOrder, dragRow, dragging, marked, markN,
    overdue, sumBar, lastClickedCell, navOpen, subDisplay, net, stored>>

\* No .sum-bar element in the card.
NoBar == [exists |-> FALSE, debe |-> 0, haber |-> 0, display |-> ""]

Init ==
  /\ phase = "loading"
  /\ loads = 0
  /\ query = <<>>
  /\ dataOrden = [t \in Tables |-> NoAttr]
  /\ rowOrder = [t \in Tables |-> TableRows(t)]
  /\ dragRow = [t \in Tables |-> NoRow]
  /\ dragging = {}
  /\ marked = RawMarked
  /\ markN = [c \in Cells |-> RawMarkN(c)]
  /\ overdue = RawOverdue
  /\ sumBar = [t \in Tables |-> NoBar]
  /\ lastClickedCell = NoCell
  /\ navOpen = RawOpen
  /\ subDisplay = [m \in NavSubs |-> ""]
  /\ net = <<>>
  /\ stored = [c \in Cells |-> {}]

\* ------------------------------------------------------------------------
\* Numbers of the sum bar.  A number is held in thousandths.
\* ------------------------------------------------------------------------

\* The first three digits of a fraction, in thousandths.
FracValue(f) ==
  LET d(i) == IF i <= Len(f) THEN DigitVal(f[i]) ELSE 0
  IN  100 * d(1) + 10 * d(2) + d(3)

IndexOf(s, c) ==
  IF \E i \in 1..Len(s) : s[i] = c
    THEN CHOOSE i \in 1..Len(s) : s[i] = c /\ \A j \in 1..(i - 1) : s[j] # c
    ELSE 0

\* Number(str) for decimal literals: white space is trimmed, the empty
\* string is 0, and the rest must be [sign] digits [. digits] with a digit
\* somewhere; anything else is NaN.  (Exponents, hexadecimal literals and
\* Infinity are not among the page's values.)
Number(s) ==
  LET t == Trim(s)
      neg == t # <<>> /\ Head(t) = "-"
      u == IF t # <<>> /\ Head(t) \in {"-", "+"} THEN Tail(t) ELSE t
      dot == IndexOf(u, ".")
      int == IF dot = 0 THEN u ELSE SubSeq(u, 1, dot - 1)
      frac == IF dot = 0 THEN <<>> ELSE SubSeq(u, dot + 1, Len(u))
      v == 1000 * DigitsValue(int) + FracValue(frac)
  IN  IF t = <<>> THEN Num(0)
      ELSE IF AllDigits(int) /\ AllDigits(frac) /\ Len(int) + Len(frac) > 0
        THEN Num(IF neg THEN 0 - v ELSE v)
        ELSE NaN

\* str.replace(/\./g, ''): every dot removed.
RemoveDots(s) == SelectSeq(s, LAMBDA c : c # ".")

\* str.replace(',', '.'): the first comma becomes a dot.
ReplaceFirstComma(s) ==
  LET i == IndexOf(s, ",") IN IF i = 0 THEN s ELSE [s EXCEPT ![i] = "."]

parseNum(raw) ==
  LET str == Trim(raw)
      n == Number(str)
      es == ReplaceFirstComma(RemoveDots(str))
      n2 == Number(es)
  IN  IF ~n.nan THEN n.n ELSE IF n2.nan THEN 0 ELSE n2.n

\* Intl.NumberFormat('es-ES', exactly two fraction digits): the number
\* rounded to hundredths, halves away from zero; the result is in hundredths.
fmt(n) ==
  IF n >= 0 THEN (n + 5) \div 10 ELSE 0 - ((5 - n) \div 10)

RECURSIVE SumVals(_)
SumVals(cs) ==
  IF cs = {} THEN 0
  ELSE LET c == CHOOSE x \in cs : TRUE
           raw == IF CellVal(c) = NoAttr THEN <<"0">> ELSE CellVal(c)
       IN  parseNum(raw) + SumVals(cs \ {c})

\* sumMarked without the column in the selector.
sumMarkedAnyColumn(mk, table, col) ==
  SumVals({c \in Cells : CellTable(c) = table /\ c \in mk})

\* sumMarked(table, col), for the cells that carry 'marked' in mk.
sumMarked(mk, table, col) ==
  SumVals({c \in Cells : CellTable(c) = table /\ c \in mk /\ CellCol(c) = col})

\* computeSumBar(table): the bars after the call, from the bars before it.
computeSumBar(bars, mk, table) ==
  IF ~InCard(table) THEN bars
  ELSE LET sumDebe == sumMarked(mk, table, "DEBE")
           sumHaber == sumMarked(mk, table, "HABER")
       IN  [bars EXCEPT ![table] =
              [exists |-> TRUE, debe |-> fmt(sumDebe), haber |-> fmt(sumHaber),
               display |-> IF sumDebe = 0 /\ sumHaber = 0 THEN "none" ELSE "block"]]

RECURSIVE ComputeAll(_, _, _)
ComputeAll(bars, mk, ts) ==
  IF ts = {} THEN bars
  ELSE LET t == CHOOSE x \in ts : TRUE
       IN  ComputeAll(computeSumBar(bars, mk, t), mk, ts \ {t})

\* ------------------------------------------------------------------------
\* Page load
\* ------------------------------------------------------------------------

\* The cells the preventive cleanup leaves with class 'marked': a cell with
\* none of mark-1..mark-9 loses it.
CleanMarked(mk, mn) == {c \in mk : mn[c] \cap (1..9) # {}}

\* The DOMContentLoaded handler: the listeners are attached, 'marked' is
\* cleaned up and the sum bar of every table.reorder-table is computed.
DOMContentLoaded ==
  /\ phase = "loading"
  /\ phase' = "ready"
  /\ marked' = CleanMarked(marked, markN)
  /\ sumBar' = ComputeAll(sumBar, marked', Tables)
  /\ UNCHANGED <<stored, loads, query, dataOrden, rowOrder, dragRow, dragging, markN,
                 overdue, lastClickedCell, navOpen, subDisplay, net>>

\* The browser leaves the document and loads the one the server renders for
\* query q: the script's closures and its pending fetches are gone.
Load(q, o, order) ==
  /\ loads < MaxLoads
  /\ loads' = loads + 1
  /\ phase' = "loading"
  /\ query' = q
  /\ dataOrden' = o
  /\ rowOrder' = order
  /\ dragRow' = [t \in Tables |-> NoRow]
  /\ dragging' = {}
  /\ marked' = RawMarked
  /\ markN' = [c \in Cells |-> RawMarkN(c)]
  /\ overdue' = RawOverdue
  /\ sumBar' = [t \in Tables |-> NoBar]
  /\ lastClickedCell' = NoCell
  /\ navOpen' = RawOpen
  /\ subDisplay' = [m \in NavSubs |-> ""]
  /\ net' = <<>>
  /\ stored' = stored

\* ------------------------------------------------------------------------
\* Drag-and-drop reordering
\* ------------------------------------------------------------------------

\* A JavaScript string is truthy unless it is empty; null is falsy.
Truthy(v) == v # NoAttr /\ v # <<>>

isValidId(v) == v # NoAttr /\ Trim(v) # <<>> /\ AllDigits(Trim(v))

RemoveAt(s, i) == SubSeq(s, 1, i - 1) \o SubSeq(s, i + 1, Len(s))

Without(s, r) == SelectSeq(s, LAMBDA x : x # r)

Pos(s, r) == CHOOSE i \in 1..Len(s) : s[i] = r

\* getBoundingClientRect() of the k-th row of a tbody: the rows are stacked
\* and of one height, and heights are measured in half rows, so box.top is
\* 2 * (k - 1) and box.height is 2.  offset = y - box.top - box.height / 2.
Offset(k, y) == y - 2 * (k - 1) - 1

\* The reduce of getDragAfterElement over els, from accumulator acc.
RECURSIVE Closest(_, _, _, _)
Closest(els, acc, order, y) ==
  IF els = <<>> THEN acc
  ELSE LET child == Head(els)
           offset == Offset(Pos(order, child), y)
       IN  IF offset < 0 /\ (acc.inf \/ offset > acc.offset)
             THEN Closest(Tail(els), [inf |-> FALSE, offset |-> offset, element |-> child], order, y)
             ELSE Closest(Tail(els), acc, order, y)

\* getDragAfterElement(tbody, y): els are the rows without class 'dragging'.
getDragAfterElement(order, drg, y) ==
  Closest(SelectSeq(order, LAMBDA r : r \notin drg),
          [inf |-> TRUE, offset |-> 0, element |-> NoRow], order, y).element

\* insertBefore of a clone of the row: the row also stays where it was.
insertBeforeClone(order, row, after) ==
  IF after = NoRow THEN Append(order, row)
  ELSE LET k == Pos(order, after)
       IN  SubSeq(order, 1, k - 1) \o <<row>> \o SubSeq(order, k, Len(order))

\* tbody.insertBefore(row, after); after = NoRow is tbody.appendChild(row).
insertBefore(order, row, after) ==
  IF after = row THEN order
  ELSE LET rest == Without(order, row)
       IN  IF after = NoRow THEN Append(rest, row)
           ELSE LET k == Pos(rest, after)
                IN  SubSeq(rest, 1, k - 1) \o <<row>> \o SubSeq(rest, k, Len(rest))

\* ValidIds without the filter: the data-id of every row that has one.
ValidIdsUnfiltered(order) ==
  SelectSeq([i \in 1..Len(order) |-> RowDataId(order[i])], LAMBDA v : v # NoAttr)

\* The data-id values of the rows of a tbody that pass isValidId, in order.
ValidIds(order) ==
  SelectSeq([i \in 1..Len(order) |-> RowDataId(order[i])], isValidId)

ReorderRequest(cliente, ids) == [kind |-> "reordenar", cliente |-> cliente, ids |-> ids]

\* A drag is in progress in the browser: one at a time.
InDrag == \E t \in Tables : dragRow[t] # NoRow

\* dragstart on row tr.  On a row without a valid id the handler calls
\* preventDefault and nothing starts.
DragStart(tr) ==
  /\ phase = "ready"
  /\ ~InDrag
  /\ IF isValidId(RowDataId(tr))
       THEN /\ dragRow' = [dragRow EXCEPT ![TableOf(tr)] = tr]
            /\ dragging' = dragging \cup {tr}
       ELSE UNCHANGED <<dragRow, dragging>>
  /\ UNCHANGED <<stored, phase, loads, query, dataOrden, rowOrder, marked, markN, overdue,
                 sumBar, lastClickedCell, navOpen, subDisplay, net>>

\* dragover on the tbody of table t, the pointer at height y.
DragOver(t, y) ==
  /\ phase = "ready"
  /\ LET after == getDragAfterElement(rowOrder[t], dragging, y)
     IN  rowOrder' =
           IF dragRow[t] = NoRow THEN rowOrder
           ELSE [rowOrder EXCEPT ![t] = insertBefore(rowOrder[t], dragRow[t], after)]
  /\ UNCHANGED <<stored, phase, loads, query, dataOrden, dragRow, dragging, marked, markN,
                 overdue, sumBar, lastClickedCell, navOpen, subDisplay, net>>

\* dragend on row tr, the row the drag started on.
DragEnd(tr) ==
  /\ phase = "ready"
  /\ dragRow[TableOf(tr)] = tr
  /\ dragging' = dragging \ {tr}
  /\ dragRow' = [dragRow EXCEPT ![TableOf(tr)] = NoRow]
  /\ LET cliente == DataCliente(TableOf(tr))
         ids == ValidIds(rowOrder[TableOf(tr)])
     IN  IF ~Truthy(cliente) \/ Len(ids) = 0
           THEN net' = net
           ELSE /\ Len(net) < MaxPending
                /\ net' = Append(net, ReorderRequest(cliente, ids))
  /\ UNCHANGED <<stored, phase, loads, query, dataOrden, rowOrder, marked, markN, overdue,
                 sumBar, lastClickedCell, navOpen, subDisplay>>

\* window.location.reload(): the server renders the same URL again.  Its row
\* order is the server's own: the order it always had, or the one on screen.
Reload ==
  \E saved \in BOOLEAN :
    Load(query, dataOrden,
         IF saved THEN rowOrder ELSE [t \in Tables |-> TableRows(t)])

\* The response (of any HTTP status) to the reorder request net[i] arrives:
\* it is logged and the page reloads.
ReorderResponse(i) ==
  /\ phase = "ready"
  /\ i \in 1..Len(net)
  /\ net[i].kind = "reordenar"
  /\ Reload

\* ReorderError with the reload in a finally: the page reloads all the same.
ReorderErrorReloads(i) ==
  /\ phase = "ready"
  /\ i \in 1..Len(net)
  /\ net[i].kind = "reordenar"
  /\ Reload

\* The fetch of the reorder request net[i] is rejected (a network error):
\* the error is logged.
ReorderError(i) ==
  /\ phase = "ready"
  /\ i \in 1..Len(net)
  /\ net[i].kind = "reordenar"
  /\ net' = RemoveAt(net, i)
  /\ UNCHANGED <<stored, phase, loads, query, dataOrden, rowOrder, dragRow, dragging, marked,
                 markN, overdue, sumBar, lastClickedCell, navOpen, subDisplay>>

Slots == 1..(MaxPending + 1)

\* e.clientY over a tbody, from its top edge to its bottom edge.
Heights(t) == 0..(2 * Len(TableRows(t)))

NextReorder ==
  \/ DOMContentLoaded
  \/ \E tr \in Rows : DragStart(tr)
  \/ \E t \in Tables : \E y \in Heights(t) : DragOver(t, y)
  \/ \E tr \in Rows : DragEnd(tr)
  \/ \E i \in Slots : ReorderResponse(i)
  \/ \E i \in Slots : ReorderError(i)

SpecReorder == Init /\ [][NextReorder]_vars

\* ------------------------------------------------------------------------
\* Marking numeric cells
\* ------------------------------------------------------------------------

\* A value of the JSON payload: its type and String(value).
Undefined == [t |-> "undefined", s |-> <<>>]

NumberValue(s) == [t |-> "number", s |-> s]

StringValue(s) == [t |-> "string", s |-> s]

\* !v for a payload value.
Falsy(v) ==
  \/ v.t = "undefined"
  \/ v.t = "number" /\ Number(v.s) \in {NaN, Num(0)}
  \/ v.t = "string" /\ v.s = <<>>

\* The mark values the server's payload may carry.
MarkValues ==
  {Undefined, NumberValue(<<"0">>), NumberValue(<<"1", "2">>), StringValue(<<"3">>)}

\* The parsed bodies r.json() may resolve to: a falsy value (null), an object
\* with ok === false, or an object with another ok (or none) and a mark.
MarkData ==
  {[falsy |-> TRUE, okFalse |-> FALSE, mark |-> Undefined],
   [falsy |-> FALSE, okFalse |-> TRUE, mark |-> Undefined]}
  \cup {[falsy |-> FALSE, okFalse |-> FALSE, mark |-> v] : v \in MarkValues}

\* The e.key values of the keys pressed.
Keys ==
  {<<"0">>, <<"9">>, <<"a">>, <<"E", "n", "t", "e", "r">>, <<"F", "5">>}

\* ClickMark with another default for a click without modifier keys.
ClickMarkDefault2(shiftKey, ctrlKey, metaKey) ==
  IF shiftKey THEN 0 ELSE IF ctrlKey \/ metaKey THEN 1 ELSE 0 - 2

\* The mark a click asks for, from the event's modifier keys.
ClickMark(shiftKey, ctrlKey, metaKey) ==
  IF shiftKey THEN 0 ELSE IF ctrlKey \/ metaKey THEN 1 ELSE 0 - 1

\* A POST to /estado-cuenta/marcar/<id>/<col> with body {mark}; td is the
\* cell the response handler has in its closure (none for a key press, whose
\* handler reads lastClickedCell).
MarkRequest(id, col, mark, td) ==
  [kind |-> "marcar", id |-> id, col |-> col, mark |-> mark, td |-> td]

\* ClickCell with the classes set at once, for the marks a click knows (0
\* with Shift, 1 with Ctrl or Meta).
ClickCellOptimistic(td, shiftKey, ctrlKey, metaKey) ==
  /\ phase = "ready"
  /\ Len(net) < MaxPending
  /\ net' = Append(net, [kind |-> "marcar", id |-> CellDataId(td), col |-> CellCol(td),
                          mark |-> ClickMark(shiftKey, ctrlKey, metaKey), td |-> td])
  /\ lastClickedCell' = td
  /\ marked' = IF shiftKey THEN marked \ {td}
               ELSE IF ctrlKey \/ metaKey THEN marked \cup {td} ELSE marked
  /\ markN' = IF shiftKey THEN [markN EXCEPT ![td] = @ \ (1..9)]
              ELSE IF ctrlKey \/ metaKey THEN [markN EXCEPT ![td] = (@ \ (1..9)) \cup {1}]
              ELSE markN
  /\ UNCHANGED <<stored, phase, loads, query, dataOrden, rowOrder, dragRow, dragging, overdue,
                 sumBar, navOpen, subDisplay>>

\* A click on numeric cell td: the cell's click listener sends the request,
\* then the document's click listener records the cell.
ClickCell(td, shiftKey, ctrlKey, metaKey) ==
  /\ phase = "ready"
  /\ Len(net) < MaxPending
  /\ net' = Append(net, MarkRequest(CellDataId(td), CellCol(td),
                                    ClickMark(shiftKey, ctrlKey, metaKey), td))
  /\ lastClickedCell' = td
  /\ UNCHANGED <<stored, phase, loads, query, dataOrden, rowOrder, dragRow, dragging, marked,
                 markN, overdue, sumBar, navOpen, subDisplay>>

\* ClickElsewhere without the test of cell: the pointer takes the null.
ClickElsewhereClears ==
  /\ phase = "ready"
  /\ lastClickedCell' = NoCell
  /\ UNCHANGED <<stored, phase, loads, query, dataOrden, rowOrder, dragRow, dragging, marked,
                 markN, overdue, sumBar, navOpen, subDisplay, net>>

\* A click whose target is in no td.num-cell: e.target.closest() is null.
ClickElsewhere ==
  /\ phase = "ready"
  /\ UNCHANGED vars

\* keydown of key on the document.
KeyDown(key) ==
  /\ phase = "ready"
  /\ LET d == parseInt(key)
     IN  IF lastClickedCell = NoCell \/ d.nan \/ d.n < 0 \/ d.n > 9
           THEN net' = net
           ELSE /\ Len(net) < MaxPending
                /\ net' = Append(net, MarkRequest(CellDataId(lastClickedCell),
                                                  CellCol(lastClickedCell), d.n, NoCell))
  /\ UNCHANGED <<stored, phase, loads, query, dataOrden, rowOrder, dragRow, dragging, marked,
                 markN, overdue, sumBar, lastClickedCell, navOpen, subDisplay>>

\* parseInt(data.mark || 0)
PayloadMark(v) == IF Falsy(v) THEN parseInt(<<"0">>) ELSE parseInt(v.s)

\* The cell whose classes the response handler of request req updates.
ResponseCell(req) == IF req.td # NoCell THEN req.td ELSE lastClickedCell

\* The mark-N classes of a cell after the handler: mark-1..mark-9 removed,
\* then mark-m added when m > 0.
NewMarkN(old, m) ==
  (old \ (1..9)) \cup (IF ~m.nan /\ m.n > 0 THEN {m.n} ELSE {})

\* The response to the mark request net[i] arrives and parses to data.
MarkResponse(i, data) ==
  /\ phase = "ready"
  /\ i \in 1..Len(net)
  /\ net[i].kind = "marcar"
  /\ net' = RemoveAt(net, i)
  /\ IF data.falsy \/ data.okFalse
       THEN UNCHANGED <<marked, markN, sumBar>>
       ELSE LET cell == ResponseCell(net[i])
                m == PayloadMark(data.mark)
            IN  /\ markN' = [markN EXCEPT ![cell] = NewMarkN(markN[cell], m)]
                /\ marked' = IF ~m.nan /\ m.n > 0 THEN marked \cup {cell}
                             ELSE marked \ {cell}
                /\ sumBar' = computeSumBar(sumBar, marked', CellTable(cell))
  /\ UNCHANGED <<stored, phase, loads, query, dataOrden, rowOrder, dragRow, dragging, overdue,
                 lastClickedCell, navOpen, subDisplay>>

\* MarkError with a retry: the request is sent again.
MarkErrorRetry(i) ==
  /\ phase = "ready"
  /\ i \in 1..Len(net)
  /\ net[i].kind = "marcar"
  /\ net' = Append(RemoveAt(net, i), net[i])
  /\ UNCHANGED <<stored, phase, loads, query, dataOrden, rowOrder, dragRow, dragging, marked,
                 markN, overdue, sumBar, lastClickedCell, navOpen, subDisplay>>

\* The fetch of the mark request net[i] is rejected, or its body is not
\* JSON: the error is logged.
MarkError(i) ==
  /\ phase = "ready"
  /\ i \in 1..Len(net)
  /\ net[i].kind = "marcar"
  /\ net' = RemoveAt(net, i)
  /\ UNCHANGED <<stored, phase, loads, query, dataOrden, rowOrder, dragRow, dragging, marked,
                 markN, overdue, sumBar, lastClickedCell, navOpen, subDisplay>>

NextMark ==
  \/ DOMContentLoaded
  \/ \E td \in Cells : \E shiftKey, ctrlKey, metaKey \in BOOLEAN :
       ClickCell(td, shiftKey, ctrlKey, metaKey)
  \/ ClickElsewhere
  \/ \E key \in Keys : KeyDown(key)
  \/ \E i \in Slots : \E data \in MarkData : MarkResponse(i, data)
  \/ \E i \in Slots : MarkError(i)

SpecMark == Init /\ [][NextMark]_vars

\* ------------------------------------------------------------------------
\* Double click: pagado
\* ------------------------------------------------------------------------

\* A POST to /estado-cuenta/pagado/<id>; tr is the row in the closure of the
\* response handler.
PagadoRequest(id, tr) == [kind |-> "pagado", id |-> id, tr |-> tr]

\* The parsed bodies r.json() may resolve to: a falsy value (null), an object
\* with ok === false, an object with another ok (or none).
PagadoData == {"falsy", "okFalse", "ok"}

\* dblclick on the td.venc-cell or td.venc-days (part) of row tr.
DblClick(tr, part) ==
  /\ phase = "ready"
  /\ LET id == RowDataId(tr)
     IN  IF ~Truthy(id)
           THEN net' = net
           ELSE /\ Len(net) < MaxPending
                /\ net' = Append(net, PagadoRequest(id, tr))
  /\ UNCHANGED <<stored, phase, loads, query, dataOrden, rowOrder, dragRow, dragging, marked,
                 markN, overdue, sumBar, lastClickedCell, navOpen, subDisplay>>

\* OverdueIn with document.querySelectorAll: every 'overdue' of the page.
OverdueAnywhere(tr) == overdue

\* tr.querySelectorAll('.overdue'): the parts of row tr that carry 'overdue'.
OverdueIn(tr) == {e \in overdue : e[1] = tr}

\* The response to the pagado request net[i] arrives and parses to data.
PagadoResponse(i, data) ==
  /\ phase = "ready"
  /\ i \in 1..Len(net)
  /\ net[i].kind = "pagado"
  /\ net' = RemoveAt(net, i)
  /\ overdue' = IF data \in {"falsy", "okFalse"} THEN overdue
                ELSE overdue \ OverdueIn(net[i].tr)
  /\ UNCHANGED <<stored, phase, loads, query, dataOrden, rowOrder, dragRow, dragging, marked,
                 markN, sumBar, lastClickedCell, navOpen, subDisplay>>

\* The fetch of the pagado request net[i] is rejected, or its body is not
\* JSON: the error is logged.
PagadoError(i) ==
  /\ phase = "ready"
  /\ i \in 1..Len(net)
  /\ net[i].kind = "pagado"
  /\ net' = RemoveAt(net, i)
  /\ UNCHANGED <<stored, phase, loads, query, dataOrden, rowOrder, dragRow, dragging, marked,
                 markN, overdue, sumBar, lastClickedCell, navOpen, subDisplay>>

NextPaid ==
  \/ DOMContentLoaded
  \/ \E tr \in Rows : \E part \in VencParts : DblClick(tr, part)
  \/ \E i \in Slots : \E data \in PagadoData : PagadoResponse(i, data)
  \/ \E i \in Slots : PagadoError(i)

SpecPaid == Init /\ [][NextPaid]_vars

\* ------------------------------------------------------------------------
\* Sorting by date, navigation groups
\* ------------------------------------------------------------------------

Asc == <<"a", "s", "c">>

Desc == <<"d", "e", "s", "c">>

Param(k, v) == [k |-> k, v |-> v]

\* url.searchParams.set(name, value): the first parameter called name gets
\* the value and the others called name are removed; without one, the
\* parameter is appended.
searchParamsSet(q, name, value) ==
  LET first == IF \E i \in 1..Len(q) : q[i].k = name
                 THEN CHOOSE i \in 1..Len(q) :
                        q[i].k = name /\ \A j \in 1..(i - 1) : q[j].k # name
                 ELSE 0
      keep(i) == q[i].k # name \/ i = first
      idx == SelectSeq([i \in 1..Len(q) |-> i], keep)
  IN  IF first = 0 THEN Append(q, Param(name, value))
      ELSE [j \in 1..Len(idx) |->
              IF idx[j] = first THEN Param(name, value) ELSE q[idx[j]]]

\* searchParams.get(name): the first value, or null.
searchParamsGet(q, name) ==
  IF \E i \in 1..Len(q) : q[i].k = name
    THEN q[CHOOSE i \in 1..Len(q) :
             q[i].k = name /\ \A j \in 1..(i - 1) : q[j].k # name].v
    ELSE NoAttr

\* NextOrden without toLowerCase.
NextOrdenCaseSensitive(attr) ==
  LET current == IF Truthy(attr) THEN attr ELSE Asc
  IN  IF current = Asc THEN Desc ELSE Asc

\* The 'orden' the click handler of th.sortable navigates to.
NextOrden(attr) ==
  LET current == toLowerCase(IF Truthy(attr) THEN attr ELSE Asc)
  IN  IF current = Asc THEN Desc ELSE Asc

\* The data-orden the server renders on every table for query q: the
\* 'orden' parameter it received.
ServerOrden(q) == [t \in Tables |-> searchParamsGet(q, "orden")]

\* window.location.href = url: the browser loads the page for query q, its
\* rows in the server's order.
Navigate(q) == Load(q, ServerOrden(q), [t \in Tables |-> TableRows(t)])

\* A click on the th.sortable[data-sort="fecha"] of table t.
SortClick(t) ==
  /\ phase = "ready"
  /\ Navigate(searchParamsSet(query, "orden", NextOrden(dataOrden[t])))

\* NavToggle without parent.classList.remove('open'): closing hides the
\* submenu and leaves the group's class.
NavToggleKeepsOpen(btn) ==
  /\ phase = "ready"
  /\ LET sub == ButtonSub(btn)
         parent == ButtonGroup(btn)
         isOpen == parent # NoElement /\ parent \in navOpen
     IN  IF sub = NoElement THEN UNCHANGED <<navOpen, subDisplay>>
         ELSE IF isOpen
           THEN /\ subDisplay' = [subDisplay EXCEPT ![sub] = "none"]
                /\ navOpen' = navOpen
           ELSE /\ subDisplay' = [subDisplay EXCEPT ![sub] = "block"]
                /\ navOpen' = IF parent = NoElement THEN navOpen ELSE navOpen \cup {parent}
  /\ UNCHANGED <<stored, phase, loads, query, dataOrden, rowOrder, dragRow, dragging, marked,
                 markN, overdue, sumBar, lastClickedCell, net>>

\* A click on button.nav-group-toggle btn.  Without a .nav-group ancestor,
\* parent is null: the submenu is shown and parent.classList throws.
NavToggle(btn) ==
  /\ phase = "ready"
  /\ LET sub == ButtonSub(btn)
         parent == ButtonGroup(btn)
         isOpen == parent # NoElement /\ parent \in navOpen
     IN  IF sub = NoElement THEN UNCHANGED <<navOpen, subDisplay>>
         ELSE IF isOpen
           THEN /\ subDisplay' = [subDisplay EXCEPT ![sub] = "none"]
                /\ navOpen' = navOpen \ {parent}
           ELSE /\ subDisplay' = [subDisplay EXCEPT ![sub] = "block"]
                /\ navOpen' = IF parent = NoElement THEN navOpen ELSE navOpen \cup {parent}
  /\ UNCHANGED <<stored, phase, loads, query, dataOrden, rowOrder, dragRow, dragging, marked,
                 markN, overdue, sumBar, lastClickedCell, net>>

\* The URLs the page may first be opened with.
Queries ==
  {<<>>,
   <<Param("cliente", <<"A">>)>>,
   <<Param("orden", <<"A", "S", "C">>), Param("cliente", <<"A">>)>>,
   <<Param("orden", Desc), Param("cliente", <<"A">>), Param("orden", <<"x">>)>>}

\* The data-orden attributes the first page may carry.
Ordenes == {NoAttr, <<>>, Asc, Desc, <<"A", "S", "C">>, <<"D", "e", "s", "c">>, <<"x">>}

\* The first page, opened with any of the URLs and rendered with any of the
\* data-orden attributes.
InitNav ==
  /\ phase = "loading"
  /\ loads = 0
  /\ query \in Queries
  /\ \E o \in Ordenes : dataOrden = [t \in Tables |-> o]
  /\ rowOrder = [t \in Tables |-> TableRows(t)]
  /\ dragRow = [t \in Tables |-> NoRow]
  /\ dragging = {}
  /\ marked = RawMarked
  /\ markN = [c \in Cells |-> RawMarkN(c)]
  /\ overdue = RawOverdue
  /\ sumBar = [t \in Tables |-> NoBar]
  /\ lastClickedCell = NoCell
  /\ navOpen = RawOpen
  /\ subDisplay = [m \in NavSubs |-> ""]
  /\ net = <<>>
  /\ stored = [c \in Cells |-> {}]

NextNav ==
  \/ DOMContentLoaded
  \/ \E t \in Tables : SortClick(t)
  \/ \E btn \in NavButtons : NavToggle(btn)

SpecNav == InitNav /\ [][NextNav]_vars

\* ------------------------------------------------------------------------
\* Every interaction, every request failing
\* ------------------------------------------------------------------------

\* The bodies after which the handlers return at once.
FailedMarkData == {d \in MarkData : d.falsy \/ d.okFalse}

FailedPagadoData == {"falsy", "okFalse"}

NextFail ==
  \/ DOMContentLoaded
  \/ \E tr \in Rows : DragStart(tr)
  \/ \E t \in Tables : \E y \in Heights(t) : DragOver(t, y)
  \/ \E tr \in Rows : DragEnd(tr)
  \/ \E td \in Cells : \E shiftKey, ctrlKey, metaKey \in BOOLEAN :
       ClickCell(td, shiftKey, ctrlKey, metaKey)
  \/ \E key \in Keys : KeyDown(key)
  \/ \E tr \in Rows : \E part \in VencParts : DblClick(tr, part)
  \/ \E i \in Slots : ReorderError(i)
  \/ \E i \in Slots : \E data \in FailedMarkData : MarkResponse(i, data)
  \/ \E i \in Slots : MarkError(i)
  \/ \E i \in Slots : \E data \in FailedPagadoData : PagadoResponse(i, data)
  \/ \E i \in Slots : PagadoError(i)

SpecFail == Init /\ [][NextFail]_vars

\* ------------------------------------------------------------------------
\* Marking against a server that stores what it is asked
\* ------------------------------------------------------------------------

\* The digit that reads as n.
DigitChar(n) == CHOOSE c \in Digits : DigitVal(c) = n

\* The body the server answers a mark request with: the mark it stored,
\* which is the mark asked for (an integer 0..9).
ServerReply(req) ==
  [falsy |-> FALSE, okFalse |-> FALSE, mark |-> NumberValue(<<DigitChar(req.mark)>>)]

\* A click on numeric cell td with Shift, Ctrl or Meta held (mark 0 or 1).
\* The server processes the requests in the order they are sent, so it is
\* taken to store the mark as the request leaves.
ServedClick(td, shiftKey, ctrlKey, metaKey) ==
  /\ phase = "ready"
  /\ shiftKey \/ ctrlKey \/ metaKey
  /\ Len(net) < MaxPending
  /\ net' = Append(net, MarkRequest(CellDataId(td), CellCol(td),
                                    ClickMark(shiftKey, ctrlKey, metaKey), td))
  /\ lastClickedCell' = td
  /\ stored' = [stored EXCEPT ![td] = {ClickMark(shiftKey, ctrlKey, metaKey)}]
  /\ UNCHANGED <<phase, loads, query, dataOrden, rowOrder, dragRow, dragging, marked,
                 markN, overdue, sumBar, navOpen, subDisplay>>

\* keydown of key on the document, the server storing the digit for the
\* cell whose id and col the request carries.
ServedKeyDown(key) ==
  /\ phase = "ready"
  /\ LET d == parseInt(key)
     IN  IF lastClickedCell = NoCell \/ d.nan \/ d.n < 0 \/ d.n > 9
           THEN UNCHANGED <<net, stored>>
           ELSE /\ Len(net) < MaxPending
                /\ net' = Append(net, MarkRequest(CellDataId(lastClickedCell),
                                                  CellCol(lastClickedCell), d.n, NoCell))
                /\ stored' = [stored EXCEPT ![lastClickedCell] = {d.n}]
  /\ UNCHANGED <<phase, loads, query, dataOrden, rowOrder, dragRow, dragging, marked,
                 markN, overdue, sumBar, lastClickedCell, navOpen, subDisplay>>

\* The server's answer to the mark request net[i] arrives: the answers
\* arrive in any order.
ServedResponse(i) ==
  /\ i \in 1..Len(net)
  /\ net[i].kind = "marcar"
  /\ MarkResponse(i, ServerReply(net[i]))

NextServed ==
  \/ DOMContentLoaded
  \/ \E td \in Cells : \E shiftKey, ctrlKey, metaKey \in BOOLEAN :
       ServedClick(td, shiftKey, ctrlKey, metaKey)
  \/ \E key \in Keys : ServedKeyDown(key)
  \/ \E i \in Slots : ServedResponse(i)

SpecServed == Init /\ [][NextServed]_vars

\* ------------------------------------------------------------------------
\* Marking from any rendered classes, the server answering marks 0..9
\* ------------------------------------------------------------------------

\* The mark-N classes a cell may be rendered with: none, or one of them
\* (N within 1..9 or not).
RenderedMarkN == {{}, {2}, {12}}

\* The first page, every numeric cell rendered with or without 'marked' and
\* with at most one mark-N class.
InitClasses ==
  /\ phase = "loading"
  /\ loads = 0
  /\ query = <<>>
  /\ dataOrden = [t \in Tables |-> NoAttr]
  /\ rowOrder = [t \in Tables |-> TableRows(t)]
  /\ dragRow = [t \in Tables |-> NoRow]
  /\ dragging = {}
  /\ marked \in SUBSET Cells
  /\ markN \in [Cells -> RenderedMarkN]
  /\ overdue = RawOverdue
  /\ sumBar = [t \in Tables |-> NoBar]
  /\ lastClickedCell = NoCell
  /\ navOpen = RawOpen
  /\ subDisplay = [m \in NavSubs |-> ""]
  /\ net = <<>>
  /\ stored = [c \in Cells |-> {}]

\* The bodies of a server whose marks are integers 0..9 (as a number or as
\* a string), and the bodies after which the handlers return at once.
RangeMarkData ==
  FailedMarkData
  \cup {[falsy |-> FALSE, okFalse |-> FALSE, mark |-> v] :
          v \in {NumberValue(<<"0">>), NumberValue(<<"9">>), StringValue(<<"3">>)}}

NextClasses ==
  \/ DOMContentLoaded
  \/ \E td \in Cells : \E shiftKey, ctrlKey, metaKey \in BOOLEAN :
       ClickCell(td, shiftKey, ctrlKey, metaKey)
  \/ \E key \in Keys : KeyDown(key)
  \/ \E i \in Slots : \E data \in RangeMarkData : MarkResponse(i, data)

SpecClasses == InitClasses /\ [][NextClasses]_vars

\* ------------------------------------------------------------------------
\* The whole script
\* ------------------------------------------------------------------------

\* Every listener of the script and every outcome of its requests.  The
\* specifications above are its parts: each one's next-state relation is
\* made of disjuncts of this one.
Next ==
  \/ DOMContentLoaded
  \/ \E tr \in Rows : DragStart(tr)
  \/ \E t \in Tables : \E y \in Heights(t) : DragOver(t, y)
  \/ \E tr \in Rows : DragEnd(tr)
  \/ \E i \in Slots : ReorderResponse(i)
  \/ \E i \in Slots : ReorderError(i)
  \/ \E td \in Cells : \E shiftKey, ctrlKey, metaKey \in BOOLEAN :
       ClickCell(td, shiftKey, ctrlKey, metaKey)
  \/ ClickElsewhere
  \/ \E key \in Keys : KeyDown(key)
  \/ \E i \in Slots : \E data \in MarkData : MarkResponse(i, data)
  \/ \E i \in Slots : MarkError(i)
  \/ \E tr \in Rows : \E part \in VencParts : DblClick(tr, part)
  \/ \E i \in Slots : \E data \in PagadoData : PagadoResponse(i, data)
  \/ \E i \in Slots : PagadoError(i)
  \/ \E t \in Tables : SortClick(t)
  \/ \E btn \in NavButtons : NavToggle(btn)

Spec == Init /\ [][Next]_vars

\* ------------------------------------------------------------------------
\* Properties
\* ------------------------------------------------------------------------

\* The requests in flight of one kind.
InFlight(kind) == {i \in 1..Len(net) : net[i].kind = kind}

\* A step that sends a request: the request sent.
Sends == Len(net') = Len(net) + 1 /\ SubSeq(net', 1, Len(net)) = net

Sent == net'[Len(net')]

\* The N of the mark-1..mark-9 classes of a cell encode mark m.
Encodes(mk, mn, c, m) ==
  IF m = 0 THEN c \notin mk /\ mn[c] \cap (1..9) = {}
  ELSE c \in mk /\ mn[c] \cap (1..9) = {m}

\* C1, as stated: every mark value sent to the server is an integer in
\* [0,9].  A click without Shift, Ctrl or Meta sends -1.
C1_MarkSentIn0to9 ==
  \A i \in InFlight("marcar") : net[i].mark \in 0..9

\* C1, amended: every mark value sent is an integer in [-1,9]; a click sends
\* -1, 0 or 1, and a key press sends a digit 0..9.
C1_MarkSentInRange ==
  \A i \in InFlight("marcar") :
    /\ net[i].mark \in (0 - 1)..9
    /\ net[i].td # NoCell => net[i].mark \in {0 - 1, 0, 1}
    /\ net[i].td = NoCell => net[i].mark \in 0..9

\* A click's -1 and a key press's 9 are in flight together.
C1_Witness ==
  /\ \E i \in InFlight("marcar") : net[i].td # NoCell /\ net[i].mark = 0 - 1
  /\ \E i \in InFlight("marcar") : net[i].td = NoCell /\ net[i].mark = 9

\* The positions of the rows of a tbody whose data-id is a valid id.
ValidPositions(order) == {p \in 1..Len(order) : isValidId(RowDataId(order[p]))}

\* ids lists the data-id of every valid row of the tbody once, in DOM order.
IsRowOrder(ids, order) ==
  /\ Len(ids) = Cardinality(ValidPositions(order))
  /\ \A p \in ValidPositions(order) :
       ids[Cardinality({q \in ValidPositions(order) : q <= p})] = RowDataId(order[p])

\* C2: at every dragend on a row of a table with a data-cliente and a valid
\* row, exactly one POST to reordenar/<cliente> is sent and its ids are the
\* data-id values of the valid rows in their DOM order at that moment, none
\* missing or repeated; on any other table nothing is sent.
C2_ReorderPostsRowOrder ==
  [][\A tr \in Rows :
       DragEnd(tr) =>
         LET t == TableOf(tr)
         IN  IF DataCliente(t) # NoAttr /\ ValidPositions(rowOrder[t]) # {}
               THEN /\ Sends
                    /\ Sent.kind = "reordenar"
                    /\ Sent.cliente = DataCliente(t)
                    /\ IsRowOrder(Sent.ids, rowOrder'[t])
                    /\ rowOrder' = rowOrder
               ELSE net' = net]_vars

\* A reorder is in flight whose ids are in an order a drag produced.
C2_Witness ==
  \E i \in InFlight("reordenar") : net[i].ids = << <<" ", "2">>, <<"1">> >>

\* The cell a mark request was sent for.
RequestCell(req, last) == IF req.td # NoCell THEN req.td ELSE last

dom == <<rowOrder, dragging, marked, markN, overdue, sumBar, navOpen, subDisplay>>

\* A step in which a request is seen to fail.
FailureSeen ==
  \E i \in Slots :
    \/ ReorderError(i)
    \/ MarkError(i)
    \/ PagadoError(i)
    \/ \E data \in FailedMarkData : MarkResponse(i, data)
    \/ \E data \in FailedPagadoData : PagadoResponse(i, data)

\* C4: an interaction sends at most one POST; when a POST fails (a network
\* error, or for mark and pagado a body with ok === false) no request is
\* sent, no page is loaded and the DOM stays as it was.
C4_FireAndForget ==
  /\ [][Len(net') <= Len(net) + 1]_vars
  /\ [][FailureSeen =>
          /\ \E i \in 1..Len(net) : net' = RemoveAt(net, i)
          /\ UNCHANGED dom
          /\ UNCHANGED <<phase, loads, query>>]_vars

\* The reorder of table t1 has failed: nothing is in flight, no page was
\* loaded and the rows are still where the drag left them.
C4_Witness ==
  /\ phase = "ready" /\ loads = 0 /\ net = <<>>
  /\ dragRow = [t \in Tables |-> NoRow]
  /\ rowOrder["t1"] # TableRows("t1")

\* C5: after any mark response is handled, whatever mark its payload
\* carries, the mark-N classes on a numeric cell have N in 1..9.
C5_MarkClassesIn1to9 ==
  phase = "ready" => \A c \in Cells : markN[c] \subseteq 1..9

\* The value of each cell's data-val, in hundredths.
CellCents(c) == CASE c = "cA" -> 1000 [] c = "cB" -> 123450

RECURSIVE TotalCents(_)
TotalCents(cs) ==
  IF cs = {} THEN 0
  ELSE LET c == CHOOSE x \in cs : TRUE IN CellCents(c) + TotalCents(cs \ {c})

\* C6: once the page is initialised, the Debe and Haber totals of the sum
\* bar of every table inside a card are the sums of the data-val of the
\* cells of that table that carry 'marked', by column.
C6_SumBarShowsMarked ==
  phase = "ready" =>
    \A t \in Tables :
      InCard(t) =>
        /\ sumBar[t].exists
        /\ sumBar[t].debe =
             TotalCents({c \in marked : CellTable(c) = t /\ CellCol(c) = "DEBE"})
        /\ sumBar[t].haber =
             TotalCents({c \in marked : CellTable(c) = t /\ CellCol(c) = "HABER"})

\* A response has marked the HABER cell and unmarked the DEBE cell.
C6_Witness ==
  /\ phase = "ready"
  /\ marked = {"cB"}
  /\ sumBar["t1"].haber = 123450 /\ sumBar["t1"].debe = 0
  /\ sumBar["t1"].display = "block"

\* C7: a double click on a due-date or days cell of a row with a data-id
\* (not empty) sends exactly one POST to pagado/<id>, and handling a response
\* whose ok is not false leaves no 'overdue' inside that row and every other
\* row's 'overdue' classes as they were; on a row without data-id nothing is
\* sent and nothing changes.
C7_PagadoClearsOverdue ==
  /\ [][\A tr \in Rows : \A part \in VencParts :
          DblClick(tr, part) =>
            IF RowDataId(tr) \notin {NoAttr, <<>>}
              THEN /\ Sends
                   /\ Sent.kind = "pagado" /\ Sent.id = RowDataId(tr)
                   /\ UNCHANGED dom
              ELSE UNCHANGED vars]_vars
  /\ [][\A i \in Slots :
          PagadoResponse(i, "ok") =>
            /\ \A part \in RowParts : <<net[i].tr, part>> \notin overdue'
            /\ \A e \in overdue : e[1] # net[i].tr => e \in overdue'
            /\ overdue' \subseteq overdue]_vars

\* Row r1 was paid: nothing in it is overdue, and r3 is as it was.
C7_Witness ==
  /\ OverdueIn("r1") = {}
  /\ OverdueIn("r3") = {e \in RawOverdue : e[1] = "r3"}
  /\ net = <<>>

\* C8: every id of the ids of a reorder POST is a string of decimal digits,
\* for any data-id values the rows carry.
C8_IdsAreDigits ==
  \A i \in InFlight("reordenar") :
    \A j \in 1..Len(net[i].ids) : net[i].ids[j] # <<>> /\ AllDigits(net[i].ids[j])

\* a is 'asc' in any letter case.
IsAsc(a) ==
  /\ Len(a) = 3
  /\ a[1] \in {"a", "A"} /\ a[2] \in {"s", "S"} /\ a[3] \in {"c", "C"}

\* The parameters of a query other than 'orden', in order.
Others(q) == SelectSeq(q, LAMBDA p : p.k # "orden")

\* A click on the FECHA header leaves every other parameter as it was and
\* leaves one 'orden' parameter.
KeepsOthers ==
  /\ Others(query') = Others(query)
  /\ Len(query') = Len(Others(query)) + 1

\* C9, as stated: the click navigates to 'orden' = 'desc' when data-orden
\* is 'asc' or absent, and to 'asc' otherwise.
C9_ToggleAsStated ==
  [][\A t \in Tables :
       SortClick(t) =>
         searchParamsGet(query', "orden") =
           IF dataOrden[t] \in {Asc, NoAttr} THEN Desc ELSE Asc]_vars

\* C9, amended: the click navigates (a full page load) to the current URL
\* with 'orden' = 'desc' when data-orden is 'asc' in any letter case, empty
\* or absent, and 'asc' otherwise, the other parameters unchanged; with the
\* server rendering data-orden from the parameter, successive clicks
\* alternate desc, asc, desc, ...
C9_SortToggle ==
  /\ [][\A t \in Tables :
          SortClick(t) =>
            /\ searchParamsGet(query', "orden") =
                 IF dataOrden[t] \in {NoAttr, <<>>} \/ IsAsc(dataOrden[t])
                   THEN Desc ELSE Asc
            /\ KeepsOthers
            /\ loads' = loads + 1 /\ phase' = "loading"
            /\ loads >= 1 =>
                 /\ searchParamsGet(query, "orden") \in {Asc, Desc}
                 /\ searchParamsGet(query', "orden") \in {Asc, Desc}
                 /\ searchParamsGet(query', "orden") # searchParamsGet(query, "orden")]_vars
  /\ [][loads' # loads => \E t \in Tables : SortClick(t)]_vars

\* Two clicks: the page was loaded with desc, then with asc, the client
\* parameter kept.
C9_Witness ==
  /\ loads = 2
  /\ searchParamsGet(query, "orden") = Asc
  /\ Others(query) = <<Param("cliente", <<"A">>)>>

\* C10: the handling of the response (of any status) to a reorder POST
\* reloads the page; the page is never reloaded but by the handling of such
\* a response; and when the POST fails with a network error nothing is
\* reloaded and the rows stay in the dragged order.
C10_ReloadAfterResponse ==
  /\ [][\A i \in Slots :
          ReorderResponse(i) => loads' = loads + 1 /\ phase' = "loading" /\ net' = <<>>]_vars
  /\ [][(loads' # loads \/ (phase = "ready" /\ phase' = "loading")) =>
          InFlight("reordenar") # {}]_vars
  /\ [][\A i \in Slots :
          ReorderError(i) =>
            /\ UNCHANGED <<loads, phase, rowOrder, dragRow, dragging>>
            /\ net' = RemoveAt(net, i)]_vars

\* The response to a reorder has been handled: the page has just been
\* reloaded and the server renders the rows in the order that was dragged.
C10_Witness ==
  /\ loads = 1 /\ phase = "loading" /\ net = <<>>
  /\ rowOrder["t1"] = <<"r3", "r2", "r1">>

\* The keys '0'..'9'.
DigitKeys == {<<d>> : d \in Digits}

\* C11: a click on a numeric cell makes it the pointed cell and no other
\* step of the page changes the pointer (a click elsewhere leaves
\* everything as it was); a keydown while no cell is pointed at, or of a key
\* that is not '0'..'9', sends nothing; a keydown of '0'..'9' with a cell
\* pointed at sends exactly one mark POST with that cell's id and col and
\* the digit as mark.
C11_KeyboardUsesPointer ==
  /\ [][\A td \in Cells : \A shiftKey, ctrlKey, metaKey \in BOOLEAN :
          ClickCell(td, shiftKey, ctrlKey, metaKey) => lastClickedCell' = td]_vars
  /\ [][lastClickedCell' # lastClickedCell =>
          \E td \in Cells : \E shiftKey, ctrlKey, metaKey \in BOOLEAN :
            ClickCell(td, shiftKey, ctrlKey, metaKey)]_vars
  /\ [][ClickElsewhere => UNCHANGED vars]_vars
  /\ [][\A key \in Keys :
          KeyDown(key) =>
            IF lastClickedCell # NoCell /\ key \in DigitKeys
              THEN /\ Sends
                   /\ Sent.kind = "marcar"
                   /\ Sent.id = CellDataId(lastClickedCell)
                   /\ Sent.col = CellCol(lastClickedCell)
                   /\ Sent.mark = DigitVal(key[1])
                   /\ UNCHANGED dom
              ELSE UNCHANGED vars]_vars

\* Cell cA was clicked, then cell cB, and key '9' was pressed: its request
\* carries the id and col of cB.
C11_Witness ==
  /\ Len(net) = 2
  /\ net[1].kind = "marcar" /\ net[1].td = "cA"
  /\ net[2] = MarkRequest(CellDataId("cB"), "HABER", 9, NoCell)
  /\ lastClickedCell = "cB"

\* The numeric cell whose data-id and data-col a mark request carries.
SentFor(req) == CHOOSE c \in Cells : CellDataId(c) = req.id /\ CellCol(c) = req.col

\* The mark classes of cell c are the same before and after the step.
SameClasses(c) == markN'[c] = markN[c] /\ (c \in marked' <=> c \in marked)

\* C12: when the response to a mark request sent by a key press is handled,
\* the mark classes of every cell other than the one the request was sent
\* for stay as they were.
C12_KeyResponseOnRequestCell ==
  [][\A i \in Slots : \A data \in MarkData :
       (MarkResponse(i, data) /\ net[i].td = NoCell) =>
         \A c \in Cells \ {SentFor(net[i])} : SameClasses(c)]_vars

\* The rows of a sequence, as a set.
RowSet(order) == {order[i] : i \in 1..Len(order)}

\* C13: whatever was dragged, the tbody of every table holds exactly the
\* rows the server rendered in it, each once; the dragged row of a table is
\* a row of that table whose data-id is a valid id (digits, once trimmed);
\* and a dragover on a table with no drag in progress leaves every row where
\* it was.
C13_DragPermutesRows ==
  /\ [](\A t \in Tables :
          /\ Len(rowOrder[t]) = Len(TableRows(t))
          /\ RowSet(rowOrder[t]) = RowSet(TableRows(t))
          /\ dragRow[t] # NoRow =>
               /\ dragRow[t] \in RowSet(TableRows(t))
               /\ RowDataId(dragRow[t]) # NoAttr
               /\ Trim(RowDataId(dragRow[t])) # <<>>
               /\ AllDigits(Trim(RowDataId(dragRow[t]))))
  /\ [][\A t \in Tables : \A y \in Heights(t) :
          (DragOver(t, y) /\ dragRow[t] = NoRow) => UNCHANGED vars]_vars

\* Row r2 was dragged to the top of table t1 and row r6 is being dragged at
\* the top of table t2.
C13_Witness ==
  /\ rowOrder["t1"] = <<"r2", "r1", "r3">>
  /\ rowOrder["t2"] = <<"r6", "r4", "r5">>
  /\ dragRow["t2"] = "r6"

\* C14: with the server processing the mark requests in the order sent and
\* its answers arriving in any order, once no mark request is outstanding
\* the mark classes of every cell a request was sent for encode the mark the
\* server stored last for it.
C14_ConvergesToStored ==
  (phase = "ready" /\ InFlight("marcar") = {}) =>
    \A c \in Cells : \A m \in stored[c] : Encodes(marked, markN, c, m)

\* C15: with every cell rendered with at most one mark-N class and every
\* response carrying a mark in 0..9, once the page is initialised every
\* numeric cell carries at most one of mark-1..mark-9 and carries 'marked'
\* exactly when it carries one of them.
C15_MarkClassesWellFormed ==
  phase = "ready" =>
    \A c \in Cells :
      /\ Cardinality(markN[c] \cap (1..9)) <= 1
      /\ c \in marked <=> markN[c] \cap (1..9) # {}

\* C16: a click on a toggle whose data-target names no element changes
\* nothing; a click on a toggle inside a .nav-group whose target exists
\* inverts the group's 'open' class (so two clicks in a row restore it) and
\* leaves the target displayed 'block' exactly when the group is 'open',
\* 'none' otherwise, every other group and submenu as it was.
C16_NavToggleFlips ==
  [][\A btn \in NavButtons :
       NavToggle(btn) =>
         LET sub == ButtonSub(btn)
             g == ButtonGroup(btn)
         IN  IF sub = NoElement THEN UNCHANGED vars
             ELSE g # NoElement =>
                    /\ g \in navOpen' <=> g \notin navOpen
                    /\ subDisplay'[sub] = (IF g \in navOpen' THEN "block" ELSE "none")
                    /\ navOpen' \ {g} = navOpen \ {g}
                    /\ \A m \in NavSubs \ {sub} : subDisplay'[m] = subDisplay[m]]_vars

\* Group g1, rendered open, was closed and opened again, and group g2 was
\* opened: both submenus are displayed.
C16_Witness ==
  /\ navOpen = {"g1", "g2"}
  /\ subDisplay["m1"] = "block"
  /\ subDisplay["m2"] = "block"

====
